---- MODULE Spec2Model ----
(***************************************************************************)
(* Model of binance_integration.py: the secret resolver get_secret, the    *)
(* kline fetcher fetch_klines and the self-test entry point.               *)
(*                                                                         *)
(* Time is in epoch milliseconds with a separate microsecond part, so that *)
(* the conversion int(ts.timestamp() * 1000) can be modelled as what it    *)
(* does (a double product, truncated) and not as the identity.             *)
(* The instants of the model lie in January 1970 so that every number fits *)
(* the integers of TLC.                                                   *)
(***************************************************************************)
EXTENDS Integers, Sequences, FiniteSets, TLC

VARIABLES
    fpc,        \* position of the fetch_klines invocation: idle, inflight, returned, raised
    args,       \* arguments of the current invocation
    now,        \* wall clock (UTC) read by the current invocation; never goes back
    request,    \* query parameters of the GET that was issued (NoParams: none)
    resp,       \* what the HTTP call produced
    result,     \* the table fetch_klines returned (a sequence of rows)
    raised,     \* exception that left fetch_klines ("" when none)
    log,        \* observable events of the current invocation, in order
    mainPc,     \* position of the self-test entry point
    df,         \* self-test: the initial batch
    df_new,     \* self-test: the incremental batch
    spc,        \* position of module loading / of a get_secret call
    st,         \* the streamlit module as imported: "None" or "module"
    host,       \* the host's secret store: not installed, no secrets file, or a file
    general,    \* keys of the [general] section of the secrets file
    hasGeneral, \* whether the secrets file has a [general] section
    environ,    \* the process environment: name -> value (NoValue when unset)
    dotenv,     \* names the .env file sets
    secretKey,  \* argument of the current get_secret call
    secretRet,  \* value get_secret returned (NoValue for None)
    secretExc,  \* exception that left get_secret ("" when none)
    apiKey,     \* BINANCE_API_KEY
    apiSecret   \* BINANCE_API_SECRET

fetchVars == <<fpc, args, now, request, resp, result, raised, log, mainPc, df, df_new>>
secretVars == <<spc, st, host, general, hasGeneral, environ, dotenv, secretKey,
                secretRet, secretExc, apiKey, apiSecret>>
vars == <<fpc, args, now, request, resp, result, raised, log, mainPc, df, df_new,
          spc, st, host, general, hasGeneral, environ, dotenv, secretKey,
          secretRet, secretExc, apiKey, apiSecret>>

(***************************************************************************)
(* Program constants                                                       *)
(***************************************************************************)
\* a page size one larger than the one the code asks for
PageLimit_Off == 1000 + 1

PageLimit == 1000
TimeoutSecs == 10
SleepSecs == 2
DefaultDays == 30
MainDays == 2
\* number of column names handed to pd.DataFrame
RowWidth == 12
\* pd.Timedelta(days=d) raises OutOfBoundsTimedelta beyond this many days
MaxTimedeltaDays == 106751

MsPerSecond == 1000
MsPerHour == 3600 * MsPerSecond
MsPerDay == 24 * MsPerHour

(***************************************************************************)
(* Bounds of the model                                                     *)
(***************************************************************************)
\* number of fields left in a row that the endpoint cut short
ShortLen == 3
\* how many seconds before the clock the "recent" start_time lies
RecentSecs == 3

(***************************************************************************)
(* Values                                                                  *)
(***************************************************************************)
TS(ms, us) == [k |-> "ts", ms |-> ms, us |-> us]
NoneT == [k |-> "none", ms |-> 0, us |-> 0]
\* a string pd.Timestamp cannot parse
Garbage == [k |-> "str", ms |-> 0, us |-> 0]
NaT == [k |-> "NaT", ms |-> 0, us |-> 0]

Num(v) == [nan |-> FALSE, v |-> v]
NaN == [nan |-> TRUE, v |-> 0]

\* JSON values of a response row
JInt(v) == [t |-> "int", v |-> v]
JNumStr(v) == [t |-> "numstr", v |-> v]
JText == [t |-> "text", v |-> 0]
JNull == [t |-> "null", v |-> 0]

Min(a, b) == IF a < b THEN a ELSE b

TsLess(a, b) == a.ms < b.ms \/ (a.ms = b.ms /\ a.us < b.us)
TsLeq(a, b) == a = b \/ TsLess(a, b)

Symbols == {"BTCUSDT", "ETHUSDT"}
Intervals == {"1s", "1h"}
IntervalMs(i) == IF i = "1s" THEN MsPerSecond ELSE MsPerHour

\* the readings of the wall clock
NowSet == { TS(2 * MsPerDay + 1800 * MsPerSecond, 0),
            TS(2 * MsPerDay + 5400 * MsPerSecond, 250) }

DaysSet == {1, MainDays, 2 * MaxTimedeltaDays}
StartTimes == { NoneT, Garbage, TS(1001, 0), TS(2000, 500),
                TS(2 * MsPerDay + (1800 - RecentSecs) * MsPerSecond, 0) }
EndTimes == { NoneT, Garbage, TS(2 * MsPerDay, 0) }

Args == [symbol : Symbols, interval : Intervals, days : DaysSet,
         start_time : StartTimes, end_time : EndTimes]

NoParams == [symbol |-> "", interval |-> "", limit |-> 0]
NoArgs == [symbol |-> "", interval |-> "", days |-> 0, start_time |-> NoneT, end_time |-> NoneT]
NoResp == [status |-> "", data |-> [k |-> "null", rows |-> <<>>]]

(***************************************************************************)
(* Building the request (lines 55-67)                                      *)
(***************************************************************************)
\* `if start_time:` -- None is falsy; a datetime and a non-empty string are truthy
Truthy(x) == x.k # "none"

\* Whole-millisecond instants t below 4000 ms for which the double product
\* round(t / 1000, 6) * 1000 falls just below t (1.001 * 1000 is
\* 1000.9999999999999), so that int() yields t - 1.  Whole seconds, and the
\* instants with a microsecond part, are truncated to their millisecond.
FloatShort(ms) == \/ (ms >= 1001 /\ ms <= 1023 /\ ms % 2 = 1)
                  \/ (ms >= 2002 /\ ms <= 2046 /\ ms % 4 = 2)

\* int(pd.Timestamp(x).timestamp() * 1000)
ToEpochMs(ts) == IF ts.us = 0 /\ FloatShort(ts.ms) THEN ts.ms - 1 ELSE ts.ms

\* ts - pd.Timedelta(days=d)
MinusDays(ts, d) == TS(ts.ms - d * MsPerDay, ts.us)

\* the exception raised while the parameters are built, "" when none
BuildError(a) ==
    IF Truthy(a.start_time) /\ a.start_time.k # "ts" THEN "ValueError"
    ELSE IF Truthy(a.end_time) /\ a.end_time.k # "ts" THEN "ValueError"
    ELSE IF ~Truthy(a.end_time) /\ ~Truthy(a.start_time) /\ a.days > MaxTimedeltaDays
         THEN "OutOfBoundsTimedelta"
    ELSE ""

BaseParams(a) == [symbol |-> a.symbol, interval |-> a.interval, limit |-> PageLimit]

WithStart(p, a) ==
    IF Truthy(a.start_time) THEN ("startTime" :> ToEpochMs(a.start_time)) @@ p ELSE p

WithEndOrDefault(p, a, nw) ==
    IF Truthy(a.end_time) THEN ("endTime" :> ToEpochMs(a.end_time)) @@ p
    ELSE IF ~Truthy(a.start_time)
         THEN ("startTime" :> ToEpochMs(MinusDays(nw, a.days))) @@ p
    ELSE p

BuildParams(a, nw) == WithEndOrDefault(WithStart(BaseParams(a), a), a, nw)

(***************************************************************************)
(* The endpoint (lines 69-71): what requests.get, raise_for_status and     *)
(* response.json can produce.  The endpoint serves the klines that open at *)
(* the multiples of the interval up to its clock; it answers a query with  *)
(* the klines that open at or after startTime and at or before endTime, at *)
(* most `limit` of them, in ascending order.  A response may also be an    *)
(* error, null, an empty array, or an array with malformed rows.           *)
(***************************************************************************)
Price(t, i) == ((t \div MsPerSecond) % 7) + 10 * i

Kline(t, step) ==
    << JInt(t), JNumStr(Price(t, 1)), JNumStr(Price(t, 2)), JNumStr(Price(t, 3)),
       JNumStr(Price(t, 4)), JNumStr(Price(t, 5)), JInt(t + step - 1),
       JNumStr(Price(t, 7)), JInt(Price(t, 8)), JNumStr(Price(t, 9)),
       JNumStr(Price(t, 10)), JNumStr(0) >>

HonestRows(p, nowMs) ==
    LET step == IntervalMs(p.interval)
        hi == IF "endTime" \in DOMAIN p THEN Min(p["endTime"], nowMs) ELSE nowMs
        lastK == (hi \div step) * step
        firstAsked == IF "startTime" \in DOMAIN p
                      THEN ((p["startTime"] + step - 1) \div step) * step
                      ELSE 0
        avail == IF lastK < firstAsked THEN 0 ELSE ((lastK - firstAsked) \div step) + 1
        n == Min(p.limit, avail)
        firstK == IF "startTime" \in DOMAIN p THEN firstAsked ELSE lastK - (n - 1) * step
    IN  [i \in 1..n |-> Kline(firstK + (i - 1) * step, step)]

Corruptions == {"none", "short", "narrow", "wide", "badnum", "badtime"}

\* the rows as the response carries them, the last one (or all) malformed
Corrupt(rows, c) ==
    LET n == Len(rows)
        last == rows[n]
    IN  IF n = 0 \/ c = "none" THEN rows
        ELSE IF c = "short" THEN [rows EXCEPT ![n] = SubSeq(last, 1, ShortLen)]
        ELSE IF c = "narrow" THEN [i \in 1..n |-> SubSeq(rows[i], 1, RowWidth - 1)]
        ELSE IF c = "wide" THEN [rows EXCEPT ![n] = Append(last, JNull)]
        ELSE IF c = "badnum" THEN [rows EXCEPT ![n] = [last EXCEPT ![5] = JText]]
        ELSE [rows EXCEPT ![n] = [last EXCEPT ![1] = JText]]

Array(rows) == [k |-> "array", rows |-> rows]
Null == [k |-> "null", rows |-> <<>>]

\* requests.get raises ConnectionError or Timeout, raise_for_status raises
\* HTTPError, response.json raises JSONDecodeError
HttpErrors == {"ConnectionError", "Timeout", "HTTPError", "JSONDecodeError"}

Responses(p, nowMs) ==
    LET rows == HonestRows(p, nowMs)
    IN  { [status |-> e, data |-> Null] : e \in HttpErrors }
        \cup { [status |-> "OK", data |-> Null], [status |-> "OK", data |-> Array(<<>>)] }
        \cup { [status |-> "OK", data |-> Array(Corrupt(rows, c))] : c \in Corruptions }

(***************************************************************************)
(* Handling the response (lines 73-101)                                    *)
(***************************************************************************)
Ev(kind, sym, exc, p, n) == [ev |-> kind, symbol |-> sym, exc |-> exc, params |-> p, n |-> n]

\* the test without `not data`
IsEmptyData_LenOnly(d) == d.k = "array" /\ Len(d.rows) = 0

\* `not data or len(data) == 0`
IsEmptyData(d) == d.k = "null" \/ Len(d.rows) = 0

\* pd.DataFrame(list of lists): as many columns as the longest row has fields
Width(rows) ==
    LET lens == { Len(rows[i]) : i \in 1..Len(rows) }
    IN  CHOOSE w \in lens : \A v \in lens : v <= w

\* ... and the shorter rows are filled up with None
Field(row, j) == IF j <= Len(row) THEN row[j] ELSE JNull

\* pd.to_datetime(x, unit="ms")
ToDatetimeMs(f) == IF f.t = "null" THEN NaT ELSE TS(f.v, 0)

\* astype(float)
AsFloat(f) == IF f.t = "null" THEN NaN ELSE Num(f.v)

\* the exception raised while the table is built, "" when none
ParseError(d) ==
    IF d.k = "null" THEN "TypeError"
    ELSE IF Width(d.rows) # RowWidth THEN "ValueError"
    ELSE IF \E i \in 1..Len(d.rows) : Field(d.rows[i], 1).t = "text" THEN "ValueError"
    ELSE IF \E i \in 1..Len(d.rows) : \E j \in 2..6 : Field(d.rows[i], j).t = "text"
         THEN "ValueError"
    ELSE ""

\* df[["open_time", "open", "high", "low", "close", "volume"]]
KlineRow(row) ==
    [open_time |-> ToDatetimeMs(Field(row, 1)), open |-> AsFloat(Field(row, 2)),
     high |-> AsFloat(Field(row, 3)), low |-> AsFloat(Field(row, 4)),
     close |-> AsFloat(Field(row, 5)), volume |-> AsFloat(Field(row, 6))]

\* a table that leaves out a last row that is short
ParseTable_DropShort(d) ==
    LET n == Len(d.rows)
        m == IF Len(d.rows[n]) < RowWidth THEN n - 1 ELSE n
    IN  [i \in 1..m |-> KlineRow(d.rows[i])]

ParseTable(d) == [i \in 1..Len(d.rows) |-> KlineRow(d.rows[i])]

\* a warning path that pauses as the exception path does
WarnPath_Sleeps(sym, p) ==
    << Ev("WARN", sym, "", p, 0), Ev("SLEEP", sym, "", NoParams, SleepSecs),
       Ev("RETURN", sym, "", NoParams, 0) >>

\* lines 74-75
WarnPath(sym, p) == << Ev("WARN", sym, "", p, 0), Ev("RETURN", sym, "", NoParams, 0) >>

\* lines 95-96
OkPath(sym, n) == << Ev("OK", sym, "", NoParams, n), Ev("RETURN", sym, "", NoParams, n) >>

\* an exception path that tries the GET again after the pause
ExceptPath_Retry(sym, e) ==
    << Ev("ERROR", sym, e, NoParams, 0), Ev("SLEEP", sym, "", NoParams, SleepSecs),
       Ev("GET", sym, "", NoParams, TimeoutSecs), Ev("RETURN", sym, "", NoParams, 0) >>

\* lines 99-101
ExceptPath(sym, e) ==
    << Ev("ERROR", sym, e, NoParams, 0), Ev("SLEEP", sym, "", NoParams, SleepSecs),
       Ev("RETURN", sym, "", NoParams, 0) >>

\* a handler for the errors of the HTTP library alone
Catches_RequestsOnly(e) == e \in {"ConnectionError", "Timeout", "HTTPError"}

\* `except Exception`: every exception class the body can raise derives from it
Catches(e) == e \in HttpErrors \cup {"ValueError", "TypeError", "OutOfBoundsTimedelta"}

OnException(sym, e) ==
    IF Catches(e) THEN [events |-> ExceptPath(sym, e), result |-> <<>>, raised |-> ""]
    ELSE [events |-> <<>>, result |-> <<>>, raised |-> e]

\* lines 70-101, from the outcome of the GET on
AfterGet(a, p, r) ==
    IF r.status # "OK" THEN OnException(a.symbol, r.status)
    ELSE IF IsEmptyData(r.data)
         THEN [events |-> WarnPath(a.symbol, p), result |-> <<>>, raised |-> ""]
    ELSE LET e == ParseError(r.data)
         IN  IF e # "" THEN OnException(a.symbol, e)
             ELSE [events |-> OkPath(a.symbol, Len(r.data.rows)),
                   result |-> ParseTable(r.data), raised |-> ""]

GetEvent(a, p) == Ev("GET", a.symbol, "", p, TimeoutSecs)

(***************************************************************************)
(* fetch_klines as two steps: up to the GET, and from its outcome on       *)
(***************************************************************************)
\* lines 54-69, or 54-67 and 98-101 when building the parameters fails
Enter(a, nw) ==
    /\ args' = a
    /\ now' = nw
    /\ resp' = NoResp
    /\ IF BuildError(a) = ""
       THEN /\ request' = BuildParams(a, nw)
            /\ log' = << GetEvent(a, BuildParams(a, nw)) >>
            /\ fpc' = "inflight"
            /\ result' = <<>>
            /\ raised' = ""
       ELSE LET o == OnException(a.symbol, BuildError(a))
            IN  /\ request' = NoParams
                /\ log' = o.events
                /\ result' = o.result
                /\ raised' = o.raised
                /\ fpc' = IF o.raised = "" THEN "returned" ELSE "raised"

\* a caller that imported the module calls fetch_klines
FetchCall ==
    /\ mainPc = "off"
    /\ fpc = "idle"
    /\ \E a \in Args : \E nw \in NowSet :
          /\ TsLeq(now, nw)
          /\ Enter(a, nw)
    /\ UNCHANGED <<mainPc, df, df_new>>
    /\ UNCHANGED secretVars

\* lines 69-101: the GET ends and fetch_klines runs to its return
HttpRespond ==
    /\ fpc = "inflight"
    /\ \E r \in Responses(request, now.ms) :
          LET o == AfterGet(args, request, r)
          IN  /\ resp' = r
              /\ log' = log \o o.events
              /\ result' = o.result
              /\ raised' = o.raised
              /\ fpc' = IF o.raised = "" THEN "returned" ELSE "raised"
    /\ UNCHANGED <<args, now, request, mainPc, df, df_new>>
    /\ UNCHANGED secretVars

(***************************************************************************)
(* The self-test entry point (lines 107-117)                               *)
(***************************************************************************)
\* df["open_time"].max(): the largest, NaT skipped
MaxOpenTime(t) ==
    LET real == { t[i].open_time : i \in { j \in 1..Len(t) : t[j].open_time.k = "ts" } }
    IN  IF real = {} THEN NaT ELSE CHOOSE m \in real : \A o \in real : TsLeq(o, m)

\* last_time + pd.Timedelta(hours=1)
PlusOneHour(ts) == IF ts.k = "ts" THEN TS(ts.ms + MsPerHour, ts.us) ELSE ts

MainSymbol == "BTCUSDT"

\* line 111
MainInitialFetch ==
    /\ mainPc = "start"
    /\ fpc = "idle"
    /\ \E nw \in NowSet :
          /\ TsLeq(now, nw)
          /\ Enter([symbol |-> MainSymbol, interval |-> "1h", days |-> MainDays,
                    start_time |-> NoneT, end_time |-> NoneT], nw)
    /\ mainPc' = "initial"
    /\ UNCHANGED <<df, df_new>>
    /\ UNCHANGED secretVars

\* the start without the step of one hour
IncrementalStart_NoStep(t) == MaxOpenTime(t)

IncrementalStart(t) == PlusOneHour(MaxOpenTime(t))

\* lines 112-116
MainIncrementalFetch ==
    /\ mainPc = "initial"
    /\ fpc = "returned"
    /\ df' = result
    /\ IF Len(result) # 0
       THEN /\ \E nw \in NowSet :
                  /\ TsLeq(now, nw)
                  /\ Enter([symbol |-> MainSymbol, interval |-> "1h", days |-> DefaultDays,
                            start_time |-> IncrementalStart(result),
                            end_time |-> NoneT], nw)
            /\ mainPc' = "incremental"
       ELSE /\ mainPc' = "done"
            /\ UNCHANGED <<fpc, args, now, request, resp, result, raised, log>>
    /\ UNCHANGED df_new
    /\ UNCHANGED secretVars

\* line 117
MainFinish ==
    /\ mainPc = "incremental"
    /\ fpc = "returned"
    /\ df_new' = result
    /\ mainPc' = "done"
    /\ UNCHANGED <<fpc, args, now, request, resp, result, raised, log, df>>
    /\ UNCHANGED secretVars

(***************************************************************************)
(* Module loading and get_secret (lines 12-33)                             *)
(***************************************************************************)
Keys == {"BINANCE_API_KEY", "BINANCE_API_SECRET", "OTHER_KEY"}

NoValue == [src |-> "none", key |-> ""]
SecretValue(k) == [src |-> "secrets", key |-> k]
EnvValue(k) == [src |-> "environ", key |-> k]
DotenvValue(k) == [src |-> "dotenv", key |-> k]

\* os.getenv(key)
Getenv(key) == environ[key]

\* `"general" in st.secrets`: reading st.secrets parses the secrets file and
\* raises when there is none
SecretsError == IF host = "nofile" THEN "FileNotFoundError" ELSE ""

\* lines 26-28
GetSecret(key) ==
    IF st = "module"
    THEN IF SecretsError # "" THEN [ret |-> NoValue, exc |-> SecretsError]
         ELSE IF hasGeneral /\ key \in general
              THEN [ret |-> SecretValue(key), exc |-> ""]
         ELSE [ret |-> Getenv(key), exc |-> ""]
    ELSE [ret |-> Getenv(key), exc |-> ""]

\* lines 13-16
ImportStreamlit ==
    /\ spc = "import"
    /\ st' = IF host = "absent" THEN "None" ELSE "module"
    /\ spc' = "dotenv"
    /\ UNCHANGED <<host, general, hasGeneral, environ, dotenv, secretKey, secretRet,
                   secretExc, apiKey, apiSecret>>
    /\ UNCHANGED fetchVars

\* line 21: load_dotenv() sets the names of the .env file that are not set yet
LoadDotenv ==
    /\ spc = "dotenv"
    /\ environ' = [k \in Keys |->
                     IF environ[k] = NoValue /\ k \in dotenv THEN DotenvValue(k)
                     ELSE environ[k]]
    /\ spc' = "key"
    /\ UNCHANGED <<st, host, general, hasGeneral, dotenv, secretKey, secretRet,
                   secretExc, apiKey, apiSecret>>
    /\ UNCHANGED fetchVars

\* line 32; an exception here ends the import of the module
LoadApiKey ==
    /\ spc = "key"
    /\ LET o == GetSecret("BINANCE_API_KEY")
       IN  /\ secretKey' = "BINANCE_API_KEY"
           /\ secretRet' = o.ret
           /\ secretExc' = o.exc
           /\ apiKey' = o.ret
           /\ spc' = IF o.exc = "" THEN "secret" ELSE "crashed"
    /\ UNCHANGED <<st, host, general, hasGeneral, environ, dotenv, apiSecret>>
    /\ UNCHANGED fetchVars

\* line 33
LoadApiSecret ==
    /\ spc = "secret"
    /\ LET o == GetSecret("BINANCE_API_SECRET")
       IN  /\ secretKey' = "BINANCE_API_SECRET"
           /\ secretRet' = o.ret
           /\ secretExc' = o.exc
           /\ apiSecret' = o.ret
           /\ spc' = IF o.exc = "" THEN "ready" ELSE "crashed"
    /\ UNCHANGED <<st, host, general, hasGeneral, environ, dotenv, apiKey>>
    /\ UNCHANGED fetchVars

\* a caller that imported the module calls get_secret
SecretCall ==
    /\ spc = "ready"
    /\ \E key \in Keys :
          LET o == GetSecret(key)
          IN  /\ secretKey' = key
              /\ secretRet' = o.ret
              /\ secretExc' = o.exc
              /\ spc' = IF o.exc = "" THEN "returned" ELSE "raised"
    /\ UNCHANGED <<st, host, general, hasGeneral, environ, dotenv, apiKey, apiSecret>>
    /\ UNCHANGED fetchVars

SecretsIdle ==
    /\ spc = "ready" /\ st = "None" /\ host = "absent" /\ general = {}
    /\ hasGeneral = FALSE /\ environ = [k \in Keys |-> NoValue] /\ dotenv = {}
    /\ secretKey = "" /\ secretRet = NoValue
    /\ secretExc = "" /\ apiKey = NoValue /\ apiSecret = NoValue

FetchIdle ==
    /\ fpc = "idle" /\ args = NoArgs /\ now = TS(0, 0) /\ request = NoParams
    /\ resp = NoResp /\ result = <<>> /\ raised = "" /\ log = <<>>
    /\ df = <<>> /\ df_new = <<>>

\* the module is loaded; it runs as a script ("start") or was imported ("off")
Init ==
    /\ FetchIdle
    /\ mainPc \in {"off", "start"}
    /\ SecretsIdle

Next ==
    \/ FetchCall
    \/ HttpRespond
    \/ MainInitialFetch
    \/ MainIncrementalFetch
    \/ MainFinish

Spec == Init /\ [][Next]_vars

\* before the module is loaded, in any environment
InitSecret ==
    /\ FetchIdle
    /\ mainPc = "off"
    /\ spc = "import"
    /\ st = "unset"
    /\ host \in {"absent", "nofile", "file"}
    /\ hasGeneral \in BOOLEAN
    /\ general \in SUBSET Keys
    /\ host # "file" => ~hasGeneral
    /\ ~hasGeneral => general = {}
    /\ environ \in { [k \in Keys |-> IF k \in S THEN EnvValue(k) ELSE NoValue] :
                       S \in SUBSET Keys }
    /\ dotenv \in SUBSET Keys
    /\ secretKey = "" /\ secretRet = NoValue /\ secretExc = ""
    /\ apiKey = NoValue /\ apiSecret = NoValue

NextSecret ==
    \/ ImportStreamlit
    \/ LoadDotenv
    \/ LoadApiKey
    \/ LoadApiSecret
    \/ SecretCall

SpecSecret == InitSecret /\ [][NextSecret]_vars

(***************************************************************************)
(* The claims                                                              *)
(***************************************************************************)
Returned == fpc = "returned"
Evs(kind) == { i \in 1..Len(log) : log[i].ev = kind }
Provided(x) == x.k # "none"
EpochMillis(ts) == ts.ms

\* the inputs for which building the request parameters fails
BadInputs ==
    \/ args.start_time.k = "str"
    \/ args.end_time.k = "str"
    \/ (~Provided(args.start_time) /\ ~Provided(args.end_time)
        /\ args.days > MaxTimedeltaDays)

NonEmptyArray == resp.status = "OK" /\ resp.data.k = "array" /\ Len(resp.data.rows) > 0
EmptyOrMissingArray ==
    resp.status = "OK" /\ (resp.data.k = "null" \/ Len(resp.data.rows) = 0)

\* a consumed field (0 to 5) that is present and is neither a number nor a numeric string
Unparseable(rows) ==
    \E i \in 1..Len(rows) : \E j \in 1..6 : j <= Len(rows[i]) /\ rows[i][j].t = "text"
Longest(rows) == CHOOSE w \in 0..20 :
    /\ \E i \in 1..Len(rows) : Len(rows[i]) = w
    /\ \A i \in 1..Len(rows) : Len(rows[i]) <= w

\* the failures of an invocation, told from its inputs and from the response alone
Failure ==
    \/ BadInputs
    \/ resp.status \in {"ConnectionError", "Timeout", "HTTPError", "JSONDecodeError"}
    \/ (NonEmptyArray /\ (Unparseable(resp.data.rows) \/ Longest(resp.data.rows) # 12))

C2_ParamsFromInputs ==
    fpc = "inflight" =>
        /\ request.symbol = args.symbol
        /\ request.interval = args.interval
        /\ request.limit = 1000
        /\ (Provided(args.start_time) =>
               /\ "startTime" \in DOMAIN request
               /\ request["startTime"] = EpochMillis(args.start_time))
        /\ (Provided(args.end_time) =>
               /\ "endTime" \in DOMAIN request
               /\ request["endTime"] = EpochMillis(args.end_time))
        /\ (~Provided(args.end_time) => "endTime" \notin DOMAIN request)
        /\ (~Provided(args.start_time) /\ ~Provided(args.end_time) =>
               /\ "startTime" \in DOMAIN request
               /\ request["startTime"] = now.ms - args.days * (24 * 3600 * 1000))
        /\ (Provided(args.end_time) /\ ~Provided(args.start_time) =>
               "startTime" \notin DOMAIN request)

\* C3: an invocation issues at most one GET; on a failure the error is logged
\* with the symbol and the error detail, then one pause of 2 seconds is taken,
\* then the empty table is returned, and no GET follows the failure.
C3_OneGetNoRetry ==
    /\ Cardinality(Evs("GET")) <= 1
    /\ (Returned /\ Failure => Evs("ERROR") # {})
    /\ (Evs("ERROR") # {} =>
          LET n == Len(log)
          IN  /\ n >= 3
              /\ Cardinality(Evs("ERROR")) = 1 /\ Cardinality(Evs("SLEEP")) = 1
              /\ log[n - 2].ev = "ERROR" /\ log[n - 2].symbol = args.symbol
              /\ log[n - 2].exc # ""
              /\ log[n - 1].ev = "SLEEP" /\ log[n - 1].n = 2
              /\ log[n].ev = "RETURN" /\ result = <<>>
              /\ \A i \in Evs("GET") : i < n - 2)

C3_Witness ==
    /\ Returned /\ resp.status = "Timeout" /\ Len(log) = 4
    /\ log[1].ev = "GET" /\ log[2].ev = "ERROR" /\ log[3].ev = "SLEEP"
    /\ log[4].ev = "RETURN"

\* C4: a 2xx answer with an empty or missing JSON array gives the empty table,
\* no error, and a warning that carries the symbol and the request parameters.
C4_EmptyArrayWarns ==
    Returned /\ EmptyOrMissingArray =>
        /\ result = <<>>
        /\ raised = ""
        /\ Evs("ERROR") = {}
        /\ \E i \in Evs("WARN") : log[i].symbol = args.symbol /\ log[i].params = request

C4_Witness ==
    /\ Returned /\ resp.status = "OK" /\ resp.data.k = "null"
    /\ Evs("WARN") # {} /\ result = <<>>

\* a response field as the result carries it
AsTime(f) == [k |-> "ts", ms |-> f.v, us |-> 0]
AsNumber(f) == [nan |-> FALSE, v |-> f.v]
Missing == [nan |-> TRUE, v |-> 0]
NumberAt(row, j) == IF j <= Len(row) THEN AsNumber(row[j]) ELSE Missing
Mapped(row) ==
    [open_time |-> AsTime(row[1]), open |-> NumberAt(row, 2), high |-> NumberAt(row, 3),
     low |-> NumberAt(row, 4), close |-> NumberAt(row, 5), volume |-> NumberAt(row, 6)]
AllMapped(rows) ==
    /\ Len(result) = Len(rows)
    /\ \A i \in 1..Len(rows) : result[i] = Mapped(rows[i])

\* C5 as claimed: for a 2xx answer with a non-empty array the result is all or
\* nothing: every row mapped in order to open_time, open, high, low, close,
\* volume; or, if any row fails to parse or does not have 12 fields, the empty
\* table.
C5_AllOrNothing ==
    Returned /\ NonEmptyArray =>
        LET rows == resp.data.rows
            bad == \/ Unparseable(rows)
                   \/ \E i \in 1..Len(rows) : Len(rows[i]) # 12
        IN  /\ (bad => result = <<>>)
            /\ (~bad => AllMapped(rows))

\* C5 amended: for a 2xx answer with a non-empty array the result is all or
\* nothing: the empty table if a consumed field fails to parse or the longest
\* row does not have 12 fields; otherwise every row mapped in order, a row
\* shorter than 12 fields included, its missing fields as missing values.
C5_AllOrNothingPadded ==
    Returned /\ NonEmptyArray =>
        LET rows == resp.data.rows
            bad == Unparseable(rows) \/ Longest(rows) # 12
        IN  /\ (bad => result = <<>>)
            /\ (~bad => AllMapped(rows))

C5_Witness ==
    /\ Returned /\ NonEmptyArray
    /\ Len(result) = Len(resp.data.rows) /\ Len(result) > 1
    /\ Len(resp.data.rows[Len(result)]) < 12
    /\ result[Len(result)].volume = Missing
    /\ result[1].volume # Missing

\* C6: the table a call returns has at most 1000 rows.
C6_AtMostThousandRows == Len(result) <= 1000

C6_Witness == Returned /\ Len(result) = 1000

\* C7: when start_time is given, every row returned has open_time >= start_time.
C7_RowsNotBeforeStart ==
    Returned /\ args.start_time.k = "ts" =>
        \A i \in 1..Len(result) : TsLeq(args.start_time, result[i].open_time)

\* C8: get_secret never raises; it returns the host secret store's value when
\* the key is there, else the environment's value, else None, also when the
\* secret store is not installed or not available.
C8_NeverRaises ==
    /\ secretExc = ""
    /\ spc \notin {"crashed", "raised"}
    /\ (spc = "returned" =>
          secretRet = IF host = "file" /\ hasGeneral /\ secretKey \in general
                      THEN SecretValue(secretKey)
                      ELSE environ[secretKey])

\* C9: in the self-test the incremental fetch is issued only after an initial
\* fetch that returned rows, its start_time is the largest open_time of the
\* initial batch plus one hour, and every row it returns opens strictly after
\* the last row of the initial batch.
C9_IncrementalAfterInitial ==
    mainPc # "off" /\ Provided(args.start_time) =>
        /\ mainPc \in {"incremental", "done"}
        /\ Len(df) > 0
        /\ \E i \in 1..Len(df) :
              /\ \A j \in 1..Len(df) : TsLeq(df[j].open_time, df[i].open_time)
              /\ args.start_time = TS(df[i].open_time.ms + 3600 * 1000, df[i].open_time.us)
        /\ (Returned =>
              \A i \in 1..Len(result) : TsLess(df[Len(df)].open_time, result[i].open_time))
        /\ (mainPc = "done" => df_new = result)

C9_Witness == mainPc = "done" /\ Len(df) > 0 /\ Len(df_new) > 0

\* C10: the 2-second pause is taken exactly in the invocations that went
\* through the exception path; a call that returns rows, and a call that returns
\* the empty table for an empty array, return without a pause and without an
\* error logged.
C10_PauseIffException ==
    Returned =>
        /\ (Evs("SLEEP") # {} <=> Failure)
        /\ (Evs("SLEEP") # {} <=> Evs("ERROR") # {})
        /\ (result # <<>> => Evs("SLEEP") = {} /\ Evs("ERROR") = {})
        /\ (EmptyOrMissingArray => Evs("SLEEP") = {} /\ Evs("ERROR") = {})

C10_Witness ==
    /\ Returned /\ resp.status = "OK" /\ resp.data.k = "array"
    /\ Len(resp.data.rows) = 0 /\ Evs("SLEEP") = {} /\ Evs("WARN") # {}

====
